---------------------------- MODULE Spec2Model ----------------------------
(***************************************************************************)
(* The retry/backoff request pipeline of src/index.ts                      *)
(* (callOpenAIWithRetry, getBackoffDelay, delay) as a state machine.       *)
(*                                                                         *)
(* Strings are sequences of code units: an ASCII character is the          *)
(* one-character string, a CJK character is the token "Uxxxx" naming its   *)
(* code point.  String.prototype.includes is substring search on these     *)
(* sequences.  Times are integers of milliseconds.  A JavaScript number    *)
(* that may be NaN is a record [nan, v].                                   *)
(***************************************************************************)
EXTENDS Integers, Sequences, FiniteSets, TLC

(***************************************************************************)
(* Bounds of the model (not program constants).                            *)
(***************************************************************************)
\* Math.random() * 1000 is drawn from JitterSteps + 1 points of [0, 1000).
JitterSteps == 2
\* A numeric Retry-After header advertises 0..MaxRetryAfter seconds.
MaxRetryAfter == 2

(***************************************************************************)
(* RETRY_CONFIG                                                            *)
(***************************************************************************)
maxRetries == 3
baseDelay == 1000
maxDelay == 10000
\* Math.random() * 1000 lies in [0, JitterRange).
JitterRange == 1000

(***************************************************************************)
(* String literals of the source and of the modelled upstream.             *)
(***************************************************************************)
MsgRateLimit ==
  <<"A", "P", "I", "U901F", "U7387", "U9650", "U5236", "UFF1A", "U8BF7",
    "U6C42", "U8FC7", "U4E8E", "U9891", "U7E41", "UFF0C", "U8BF7", "U7A0D",
    "U540E", "U518D", "U8BD5", "U3002", "U5EFA", "U8BAE", "U7B49", "U5F85",
    "1", "-", "2", "U5206", "U949F", "U3002">>
MsgAuthFailed ==
  <<"A", "P", "I", "U8BA4", "U8BC1", "U5931", "U8D25", "UFF1A", "U8BF7",
    "U68C0", "U67E5", "O", "p", "e", "n", "A", "I", " ", "A", "P", "I",
    "U5BC6", "U94A5", "U662F", "U5426", "U6B63", "U786E">>
MsgPermission ==
  <<"A", "P", "I", "U6743", "U9650", "U9519", "U8BEF", "UFF1A", "U60A8",
    "U7684", "U8D26", "U6237", "U53EF", "U80FD", "U6CA1", "U6709", "U8DB3",
    "U591F", "U7684", "U6743", "U9650", "U6216", "U4F59", "U989D">>
MsgApiErrorPrefix ==
  <<"O", "p", "e", "n", "A", "I", " ", "A", "P", "I", "U9519", "U8BEF", " ",
    "(">>
MsgApiErrorInfix ==
  <<")", ":", " ">>
StrFetch ==
  <<"f", "e", "t", "c", "h">>
StrNetwork ==
  <<"n", "e", "t", "w", "o", "r", "k">>

\* Reason phrases an upstream may send (Response.statusText).
TextEmpty == <<>>
TextNotFound ==
  <<"N", "o", "t", " ", "F", "o", "u", "n", "d">>
TextBadRequest ==
  <<"B", "a", "d", " ", "R", "e", "q", "u", "e", "s", "t">>
TextInternal ==
  <<"I", "n", "t", "e", "r", "n", "a", "l", " ", "S", "e", "r", "v", "e",
    "r", " ", "E", "r", "r", "o", "r">>
TextUnavailable ==
  <<"S", "e", "r", "v", "i", "c", "e", " ", "U", "n", "a", "v", "a", "i",
    "l", "a", "b", "l", "e">>
TextNetworkUnreachable ==
  <<"n", "e", "t", "w", "o", "r", "k", " ", "u", "n", "r", "e", "a", "c",
    "h", "a", "b", "l", "e">>

\* Messages of the TypeError a rejected fetch() carries.
FaultFetchFailed ==
  <<"f", "e", "t", "c", "h", " ", "f", "a", "i", "l", "e", "d">>
FaultConnLost ==
  <<"N", "e", "t", "w", "o", "r", "k", " ", "c", "o", "n", "n", "e", "c",
    "t", "i", "o", "n", " ", "l", "o", "s", "t", ".">>
FaultInternal ==
  <<"i", "n", "t", "e", "r", "n", "a", "l", " ", "e", "r", "r", "o", "r">>

\* Message of the SyntaxError response.json() rejects with.
JsonSyntaxError ==
  <<"U", "n", "e", "x", "p", "e", "c", "t", "e", "d", " ", "t", "o", "k",
    "e", "n", " ", "<", " ", "i", "n", " ", "J", "S", "O", "N", " ", "a",
    "t", " ", "p", "o", "s", "i", "t", "i", "o", "n", " ", "0">>

\* Retry-After values that are not a number of seconds.
HdrDate ==
  <<"W", "e", "d", ",", " ", "2", "1", " ", "O", "c", "t", " ", "2", "0",
    "1", "5", " ", "0", "7", ":", "2", "8", ":", "0", "0", " ", "G", "M",
    "T">>
HdrGarbage == <<"s", "o", "o", "n">>

\* The substrings the HTTP handler looks for in error.message.
StrRateLimitZh ==
  <<"U901F", "U7387", "U9650", "U5236">>
StrTooManyRequests ==
  <<"T", "o", "o", " ", "M", "a", "n", "y", " ", "R", "e", "q", "u", "e",
    "s", "t", "s">>
StrAuthFailedZh ==
  <<"U8BA4", "U8BC1", "U5931", "U8D25">>
StrUnauthorized ==
  <<"U", "n", "a", "u", "t", "h", "o", "r", "i", "z", "e", "d">>
StrPermissionZh ==
  <<"U6743", "U9650", "U9519", "U8BEF">>
StrForbidden ==
  <<"F", "o", "r", "b", "i", "d", "d", "e", "n">>

\* The handler's own error texts.
MsgMissingPrompt ==
  <<"M", "i", "s", "s", "i", "n", "g", " ", "r", "e", "q", "u", "i", "r",
    "e", "d", " ", "p", "a", "r", "a", "m", "e", "t", "e", "r", ":", " ",
    "p", "r", "o", "m", "p", "t">>
MsgMissingKey ==
  <<"C", "o", "n", "f", "i", "g", "u", "r", "a", "t", "i", "o", "n", " ",
    "e", "r", "r", "o", "r", ":", " ", "O", "p", "e", "n", "A", "I", " ",
    "A", "P", "I", " ", "k", "e", "y", " ", "i", "s", " ", "m", "i", "s",
    "s", "i", "n", "g">>

\* Messages of the TypeError of data.choices[0].message on a document with
\* an empty and with a missing choices array, and of the SyntaxError of
\* request.json().
MsgNoFirstChoice ==
  <<"C", "a", "n", "n", "o", "t", " ", "r", "e", "a", "d", " ", "p", "r",
    "o", "p", "e", "r", "t", "i", "e", "s", " ", "o", "f", " ", "u", "n",
    "d", "e", "f", "i", "n", "e", "d", " ", "(", "r", "e", "a", "d", "i",
    "n", "g", " ", "'", "m", "e", "s", "s", "a", "g", "e", "'", ")">>
MsgNoChoices ==
  <<"C", "a", "n", "n", "o", "t", " ", "r", "e", "a", "d", " ", "p", "r",
    "o", "p", "e", "r", "t", "i", "e", "s", " ", "o", "f", " ", "u", "n",
    "d", "e", "f", "i", "n", "e", "d", " ", "(", "r", "e", "a", "d", "i",
    "n", "g", " ", "'", "0", "'", ")">>
MsgRequestNotJson ==
  <<"U", "n", "e", "x", "p", "e", "c", "t", "e", "d", " ", "e", "n", "d",
    " ", "o", "f", " ", "J", "S", "O", "N", " ", "i", "n", "p", "u", "t">>

(***************************************************************************)
(* JavaScript primitives the code uses.                                    *)
(***************************************************************************)
Min(a, b) == IF a <= b THEN a ELSE b

RECURSIVE Pow2(_)
\* Math.pow(2, n) for n >= 0
Pow2(n) == IF n <= 0 THEN 1 ELSE 2 * Pow2(n - 1)

Num(v) == [nan |-> FALSE, v |-> v]
NaN == [nan |-> TRUE, v |-> 0]
\* x * k for a number x that may be NaN
Times(x, k) == IF x.nan THEN NaN ELSE Num(x.v * k)

\* String.prototype.includes
includes(s, sub) ==
  \E i \in 0..(Len(s) - Len(sub)) :
     \A k \in 1..Len(sub) : s[i + k] = sub[k]

DigitChars == <<"0", "1", "2", "3", "4", "5", "6", "7", "8", "9">>
HexLower == <<"a", "b", "c", "d", "e", "f">>
HexUpper == <<"A", "B", "C", "D", "E", "F">>

\* The value of character c as a digit of the radix, -1 when it is none.
DigitValue(c, radix) ==
  IF \E d \in 1..10 : DigitChars[d] = c
    THEN (CHOOSE d \in 1..10 : DigitChars[d] = c) - 1
    ELSE IF radix = 16 /\ \E d \in 1..6 : HexLower[d] = c \/ HexUpper[d] = c
      THEN 9 + (CHOOSE d \in 1..6 : HexLower[d] = c \/ HexUpper[d] = c)
      ELSE -1

RECURSIVE TrimStart(_)
TrimStart(s) ==
  IF s # <<>> /\ s[1] \in {" ", "\t", "\n", "\r"} THEN TrimStart(Tail(s)) ELSE s

RECURSIVE DigitPrefixLen(_, _)
\* Length of the longest prefix of s made of digits of the radix.
DigitPrefixLen(s, radix) ==
  IF s # <<>> /\ DigitValue(s[1], radix) >= 0
    THEN 1 + DigitPrefixLen(Tail(s), radix)
    ELSE 0

RECURSIVE DigitsValue(_, _, _)
\* The number the first n characters of s denote in the radix.
DigitsValue(s, n, radix) ==
  IF n = 0 THEN 0
  ELSE DigitsValue(s, n - 1, radix) * radix + DigitValue(s[n], radix)

\* parseInt(s) with no radix argument: leading white space skipped, an
\* optional sign, "0x"/"0X" selects radix 16, the longest digit prefix is
\* read and the rest ignored; NaN when there is no digit.
parseInt(s) ==
  LET t == TrimStart(s)
      neg == t # <<>> /\ t[1] = "-"
      u == IF t # <<>> /\ t[1] \in {"+", "-"} THEN Tail(t) ELSE t
      hex == Len(u) >= 2 /\ u[1] = "0" /\ u[2] \in {"x", "X"}
      radix == IF hex THEN 16 ELSE 10
      w == IF hex THEN Tail(Tail(u)) ELSE u
      n == DigitPrefixLen(w, radix)
      v == DigitsValue(w, n, radix)
  IN IF n = 0 THEN NaN ELSE Num(IF neg THEN 0 - v ELSE v)

RECURSIVE ToDigits(_)
\* String(n) for an integer n >= 0, as the template literal formats it.
ToDigits(n) ==
  IF n < 10 THEN <<DigitChars[n + 1]>>
  ELSE ToDigits(n \div 10) \o <<DigitChars[(n % 10) + 1]>>


(***************************************************************************)
(* getBackoffDelay: Math.random() * 1000 is the parameter jitter.          *)
(***************************************************************************)
\* Mutant: the attempt counted from one (factor 2 on the first retry).
getBackoffDelayOneBased(a, base, cap, jitter) ==
  Min(base * Pow2(a + 1) + jitter, cap)

getBackoffDelay(a, base, cap, jitter) ==
  LET exponentialDelay == base * Pow2(a)
  IN Min(exponentialDelay + jitter, cap)

\* The values Math.random() * 1000 is drawn from.
Jitters == {(i * (JitterRange - 1)) \div JitterSteps : i \in 0..JitterSteps}

(***************************************************************************)
(* The upstream: what one fetch() may settle with.                         *)
(***************************************************************************)
\* response.headers.get('Retry-After'): null (absent) or a string.
NoHeader == [present |-> FALSE, value |-> <<>>]
Hdr(v) == [present |-> TRUE, value |-> v]
\* A rate-limited upstream may also ask for a minute's pause.
LongRetryAfter == 60
RetryAfterHeaders ==
  {NoHeader, Hdr(<<>>), Hdr(HdrDate), Hdr(HdrGarbage)}
    \cup {Hdr(ToDigits(n)) : n \in 0..MaxRetryAfter}
    \cup {Hdr(ToDigits(LongRetryAfter))}

\* A body: whether it is JSON text, and which document it is.
SuccessBodies ==
  {[json |-> TRUE, id |-> 1], [json |-> TRUE, id |-> 2],
   [json |-> FALSE, id |-> 3],
   [json |-> TRUE, id |-> 4], [json |-> TRUE, id |-> 5]}
ErrorBody == [json |-> TRUE, id |-> 0]

\* The JSON documents behind the body ids: the contents of the choices (each
\* choices[i].message.content), usage and model.  Document 4 has an empty
\* choices array, document 5 (and every other id) has none.
Usage(p, c) ==
  [prompt_tokens |-> p, completion_tokens |-> c, total_tokens |-> p + c]
Document(id) ==
  CASE id = 1 -> [hasChoices |-> TRUE, choices |-> <<"hi">>,
                  usage |-> Usage(1, 1), model |-> "m"]
    [] id = 2 -> [hasChoices |-> TRUE, choices |-> <<"first", "second">>,
                  usage |-> Usage(2, 3), model |-> "gpt-4"]
    [] id = 4 -> [hasChoices |-> TRUE, choices |-> <<>>,
                  usage |-> Usage(7, 0), model |-> "m"]
    [] OTHER -> [hasChoices |-> FALSE, choices |-> <<>>,
                 usage |-> Usage(0, 0), model |-> ""]

Statuses == {200, 400, 401, 403, 404, 429, 500, 503}

StatusTexts(status) ==
  CASE status = 400 -> {TextBadRequest, TextNetworkUnreachable, StrUnauthorized}
    [] status = 404 -> {TextNotFound, TextEmpty}
    [] status = 500 -> {TextInternal, TextNetworkUnreachable}
    [] status = 503 -> {TextUnavailable}
    [] OTHER -> {TextEmpty}

Responses ==
  UNION {
    {[status |-> st, statusText |-> tx, retryAfter |-> ra, body |-> b] :
        tx \in StatusTexts(st),
        ra \in (IF st = 429 THEN RetryAfterHeaders ELSE {NoHeader}),
        b \in (IF st = 200 THEN SuccessBodies ELSE {ErrorBody})}
    : st \in Statuses}

NoResponse ==
  [status |-> 0, statusText |-> <<>>, retryAfter |-> NoHeader,
   body |-> ErrorBody]

\* response.ok
ok(r) == r.status >= 200 /\ r.status <= 299

\* Messages of the errors a rejected fetch() carries.
FetchFaults == {FaultFetchFailed, FaultConnLost, FaultInternal}

\* What the model remembers of an upstream outcome (status 0: a fault).
Outcome(r) ==
  [status |-> r.status, retryAfter |-> r.retryAfter, body |-> r.body,
   fault |-> <<>>]
FaultOutcome(message) ==
  [status |-> 0, retryAfter |-> NoHeader, body |-> ErrorBody,
   fault |-> message]

(***************************************************************************)
(* callOpenAIWithRetry                                                     *)
(***************************************************************************)
VARIABLES
  pc,        \* where the invocation is: idle, fetch, body, delay, done
  attempt,   \* the loop variable
  response,  \* the response of the current attempt
  waitTime,  \* the argument of the pending (or last) delay()
  result,    \* how the invocation ended
  requests,  \* upstream requests issued
  waited,    \* delays that have elapsed
  slept,     \* milliseconds the last elapsed timer ran
  hist,      \* the upstream's outcomes, in order
  backoff,   \* one evaluation of getBackoffDelay: its arguments and value
  hpc,       \* where the HTTP handler is: idle, reading, calling, responded
  request,   \* the HTTP request and the environment the handler was given
  httpResponse,  \* the Response the handler returned
  calls,     \* two invocations running interleaved: each one's locals
  counters   \* the attempt bindings of the two invocations' loops

vars == <<pc, attempt, response, waitTime, result, requests, waited, slept,
          hist, backoff, hpc, request, httpResponse, calls, counters>>

\* The handler's variables, and the client's.
hvars == <<hpc, request, httpResponse>>
cvars == <<pc, attempt, response, waitTime, result, requests, waited, slept,
           hist>>
\* The two interleaved invocations' variables.
pvars == <<calls, counters>>

\* The parsed document of a JSON body; the value of a function that ends
\* without a return statement.
JsonValue(body) == [id |-> body.id]
Undefined == [id |-> -1]

Pending == [type |-> "pending", data |-> Undefined, message |-> <<>>]
Return(data) == [type |-> "return", data |-> data, message |-> <<>>]
Throw(message) == [type |-> "throw", data |-> Undefined, message |-> message]
Delay(ms) == [type |-> "delay", data |-> Undefined, message |-> <<>>, ms |-> ms]

\* `OpenAI API错误 (${response.status}): ${response.statusText}`
ApiErrorMessage(status, statusText) ==
  MsgApiErrorPrefix \o ToDigits(status) \o MsgApiErrorInfix \o statusText

\* The loop condition.
LoopContinues(a) == a <= maxRetries

\* Mutant: the last retry of a 429 is given up one attempt early.
RateLimitRetriesOffByOne(a) == a < maxRetries - 1

\* Mutant: a 429 is retried without looking at the attempts left.
RateLimitRetriesAlways(a) == TRUE

\* 429: retried while attempts remain.
RateLimitRetries(a) == a < maxRetries

\* Mutant: the seconds of Retry-After are not converted to milliseconds.
RateLimitWaitNotConverted(retryAfter, a, jitter) ==
  IF retryAfter.present /\ retryAfter.value # <<>>
    THEN parseInt(retryAfter.value)
    ELSE Num(getBackoffDelay(a, baseDelay, maxDelay, jitter))

\* 429 with attempts left: the wait.
RateLimitWait(retryAfter, a, jitter) ==
  IF retryAfter.present /\ retryAfter.value # <<>>
    THEN Times(parseInt(retryAfter.value), 1000)
    ELSE Num(getBackoffDelay(a, baseDelay, maxDelay, jitter))

\* Mutant: a server error is retried without looking at the attempts left.
ServerErrorRetriesAlways(status, a) == status >= 500

\* >= 500: retried while attempts remain.
ServerErrorRetries(status, a) == status >= 500 /\ a < maxRetries

\* Mutant: the catch clause retries every error while attempts remain.
CatchRetriesAnyError(a, message) == a < maxRetries

\* The catch clause: which errors are retried.
CatchRetries(a, message) ==
  a < maxRetries /\ (includes(message, StrFetch) \/ includes(message, StrNetwork))

\* Mutant: the catch clause retries a network error on the last attempt too.
CatchIgnoresAttempt(a, message, jitter) ==
  IF includes(message, StrFetch) \/ includes(message, StrNetwork)
    THEN Delay(Num(getBackoffDelay(a, baseDelay, maxDelay, jitter)))
    ELSE Throw(message)

\* Mutant: the catch clause computes the backoff of the next attempt.
CatchExponentOffByOne(a, message, jitter) ==
  IF CatchRetries(a, message)
    THEN Delay(Num(getBackoffDelay(a + 1, baseDelay, maxDelay, jitter)))
    ELSE Throw(message)

\* Mutant: the catch clause gives up when the backoff drew any jitter.
CatchGivesUpOnJitter(a, message, jitter) ==
  IF CatchRetries(a, message) /\ jitter = 0
    THEN Delay(Num(getBackoffDelay(a, baseDelay, maxDelay, jitter)))
    ELSE Throw(message)

\* The catch clause: wait and continue, or rethrow.
Catch(a, message, jitter) ==
  IF CatchRetries(a, message)
    THEN Delay(Num(getBackoffDelay(a, baseDelay, maxDelay, jitter)))
    ELSE Throw(message)

\* The statements after a non-ok response's text has been read, up to the
\* first await, return or throw.
Classify(a, r, jitter) ==
  IF r.status = 429
    THEN IF RateLimitRetries(a)
           THEN Delay(RateLimitWait(r.retryAfter, a, jitter))
           ELSE Throw(MsgRateLimit)
  ELSE IF r.status = 401 THEN Throw(MsgAuthFailed)
  ELSE IF r.status = 403 THEN Throw(MsgPermission)
  ELSE IF ServerErrorRetries(r.status, a)
    THEN Delay(Num(getBackoffDelay(a, baseDelay, maxDelay, jitter)))
  ELSE Throw(ApiErrorMessage(r.status, r.statusText))

\* A throw inside the try block lands in the catch clause of the same attempt.
TryBody(a, r, jitter) ==
  LET c == Classify(a, r, jitter)
  IN IF c.type = "throw" THEN Catch(a, c.message, jitter) ELSE c

\* setTimeout(resolve, ms): NaN and negative values are a timeout of 0.
TimeoutMs(ms) == IF ms.nan \/ ms.v < 0 THEN 0 ELSE ms.v

NoBackoff ==
  [a |-> 0, base |-> 0, cap |-> 0, jitter |-> 0, called |-> FALSE, value |-> 0]

(***************************************************************************)
(* The HTTP handler (export default fetch): its inputs and its responses.  *)
(***************************************************************************)
\* A request: its method, whether its body is JSON text, requestData.prompt
\* ("" when missing), and env.OPENAI_API_KEY ("" when missing).
Methods == {"OPTIONS", "GET", "POST", "PUT"}
HttpRequests ==
  {[method |-> m, json |-> j, prompt |-> p, apiKey |-> k] :
     m \in Methods, j \in BOOLEAN, p \in {"", "hello"}, k \in {"", "sk"}}
NoRequest == [method |-> "", json |-> FALSE, prompt |-> "", apiKey |-> ""]

NoHttpResponse ==
  [status |-> 0, type |-> "", error |-> <<>>, text |-> "",
   usage |-> Usage(0, 0), model |-> ""]
\* new Response(JSON.stringify({text, usage, model}))
CompletionResponse(text, usage, model) ==
  [status |-> 200, type |-> "completion", error |-> <<>>, text |-> text,
   usage |-> usage, model |-> model]
\* new Response(JSON.stringify({error, type: 'AI_API_ERROR', timestamp}))
ErrorResponse(status, message) ==
  [status |-> status, type |-> "AI_API_ERROR", error |-> message, text |-> "",
   usage |-> Usage(0, 0), model |-> ""]
\* The responses of the validation, of OPTIONS and GET, and the 405.
PlainResponse(status, type, message) ==
  [status |-> status, type |-> type, error |-> message, text |-> "",
   usage |-> Usage(0, 0), model |-> ""]

\* The handler's catch clause: the status code for an error message.
StatusCodeFor(message) ==
  IF includes(message, StrRateLimitZh) \/ includes(message, StrTooManyRequests)
    THEN 429
  ELSE IF includes(message, StrAuthFailedZh) \/ includes(message, StrUnauthorized)
    THEN 401
  ELSE IF includes(message, StrPermissionZh) \/ includes(message, StrForbidden)
    THEN 403
  ELSE 500

\* The handler's catch clause.
HandlerCatch(message) == ErrorResponse(StatusCodeFor(message), message)

\* Mutant: the last choice is read instead of the first.
LastChoiceContent(doc) == doc.choices[Len(doc.choices)]

\* data.choices[0].message.content
FirstChoiceContent(doc) == doc.choices[1]

\* The handler after callOpenAIWithRetry returned data: the completion
\* response, or the TypeError of data.choices[0].message, caught.
HandlerSuccess(data) ==
  LET doc == Document(data.id)
  IN IF ~doc.hasChoices THEN HandlerCatch(MsgNoChoices)
     ELSE IF doc.choices = <<>> THEN HandlerCatch(MsgNoFirstChoice)
     ELSE CompletionResponse(FirstChoiceContent(doc), doc.usage, doc.model)

\* The handler once callOpenAIWithRetry has settled with res.
HandlerResponse(res) ==
  IF res.type = "throw" THEN HandlerCatch(res.message)
  ELSE HandlerSuccess(res.data)

(***************************************************************************)
(* The options of a call and the request body built from them.  A          *)
(* temperature is counted in tenths (7 is 0.7).                            *)
(***************************************************************************)
\* An option is omitted (undefined) or given with a value.
OmittedString == [given |-> FALSE, v |-> ""]
OmittedNumber == [given |-> FALSE, v |-> 0]
Given(v) == [given |-> TRUE, v |-> v]

\* options = {}
NoOptions ==
  [model |-> OmittedString, temperature |-> OmittedNumber,
   max_tokens |-> OmittedNumber]

DefaultModel == "gpt-3.5-turbo"
DefaultTemperature == 7
DefaultMaxTokens == 500

\* x || d: d replaces undefined and every other falsy value ("" and 0).
OrString(x, d) == IF x.given /\ x.v # "" THEN x.v ELSE d
OrNumber(x, d) == IF x.given /\ x.v # 0 THEN x.v ELSE d

\* const requestBody = {...}; content is messages[0].content.
RequestBody(prompt, options) ==
  [model |-> OrString(options.model, DefaultModel),
   content |-> prompt,
   temperature |-> OrNumber(options.temperature, DefaultTemperature),
   max_tokens |-> OrNumber(options.max_tokens, DefaultMaxTokens)]
NoBody == [model |-> "", content |-> "", temperature |-> 0, max_tokens |-> 0]

\* The options a caller passes: each one omitted or supplied, the
\* temperature supplied as 0 or as 1.2.
OptionSets ==
  {[model |-> m, temperature |-> t, max_tokens |-> k] :
     m \in {OmittedString, Given("gpt-4")},
     t \in {OmittedNumber, Given(0), Given(12)},
     k \in {OmittedNumber, Given(100)}}

\* The two invocations of the interleaving, and the locals of one that has
\* not been called.
Invocations == {1, 2}
NoCall ==
  [pc |-> "idle", response |-> NoResponse, waitTime |-> Num(0),
   result |-> Pending, requests |-> 0, waited |-> 0, hist |-> <<>>,
   options |-> NoOptions, requestBody |-> NoBody, sent |-> <<>>]

Init ==
  /\ pc = "idle"
  /\ attempt = 0
  /\ response = NoResponse
  /\ waitTime = Num(0)
  /\ result = Pending
  /\ requests = 0
  /\ waited = 0
  /\ slept = 0
  /\ hist = <<>>
  /\ backoff = NoBackoff
  /\ hpc = "idle"
  /\ request = NoRequest
  /\ httpResponse = NoHttpResponse
  /\ calls = [i \in Invocations |-> NoCall]
  /\ counters = [i \in Invocations |-> 0]

\* The head of the loop with attempt = a: the next fetch() is issued, or
\* the loop and the function end.
LoopHead(a) ==
  /\ attempt' = a
  /\ response' = NoResponse
  /\ IF LoopContinues(a)
       THEN pc' = "fetch" /\ requests' = requests + 1 /\ result' = result
       ELSE pc' = "done" /\ requests' = requests /\ result' = Return(Undefined)

\* Mutant: delay() is called without await, the loop continues at once.
SettleNoAwait(o) ==
  IF o.type = "delay"
    THEN /\ waitTime' = o.ms
         /\ LoopHead(attempt + 1)
    ELSE /\ attempt' = attempt /\ requests' = requests
         /\ response' = response
         /\ pc' = "done" /\ waitTime' = waitTime
         /\ result' = [type |-> o.type, data |-> o.data,
                       message |-> o.message]

\* What follows the attempt's outcome o: a delay is started, or the
\* function returns or throws.
Settle(o) ==
  /\ attempt' = attempt
  /\ requests' = requests
  /\ response' = response
  /\ IF o.type = "delay"
       THEN pc' = "delay" /\ waitTime' = o.ms /\ result' = result
       ELSE pc' = "done" /\ waitTime' = waitTime
            /\ result' = [type |-> o.type, data |-> o.data,
                          message |-> o.message]

\* callOpenAIWithRetry is called: the first request is issued.
Call ==
  /\ pc = "idle"
  /\ LoopHead(0)
  /\ UNCHANGED <<waitTime, waited, slept, hist, backoff>>

\* fetch() resolves with a response; its body is being read.
FetchResolves ==
  /\ pc = "fetch"
  /\ \E r \in Responses :
       /\ response' = r
       /\ hist' = Append(hist, Outcome(r))
  /\ pc' = "body"
  /\ UNCHANGED <<attempt, waitTime, result, requests, waited, slept, backoff,
                 hvars, pvars>>

\* fetch() rejects: the catch clause runs.
FetchRejects ==
  /\ pc = "fetch"
  /\ \E message \in FetchFaults, jitter \in Jitters :
       /\ Settle(Catch(attempt, message, jitter))
       /\ hist' = Append(hist, FaultOutcome(message))
  /\ UNCHANGED <<waited, slept, backoff, hvars, pvars>>

\* response.json() or response.text() settles and the attempt is decided.
BodySettles ==
  /\ pc = "body"
  /\ \E jitter \in Jitters :
       IF ok(response)
         THEN IF response.body.json
                THEN Settle(Return(JsonValue(response.body)))
                ELSE Settle(Catch(attempt, JsonSyntaxError, jitter))
         ELSE Settle(TryBody(attempt, response, jitter))
  /\ UNCHANGED <<waited, slept, hist, backoff, hvars, pvars>>

\* Mutant: the loop continues without attempt++.
DelayElapsesNoIncrement ==
  /\ pc = "delay"
  /\ waited' = waited + 1
  /\ slept' = TimeoutMs(waitTime)
  /\ LoopHead(attempt)
  /\ UNCHANGED <<waitTime, hist, backoff, hvars, pvars>>

\* Mutant: the timer never fires, the invocation stays in its wait.
DelayNeverElapses == pc = "delay" /\ UNCHANGED vars

\* The timer of delay() fires: continue, attempt++ and the loop head.
DelayElapses ==
  /\ pc = "delay"
  /\ waited' = waited + 1
  /\ slept' = TimeoutMs(waitTime)
  /\ LoopHead(attempt + 1)
  /\ UNCHANGED <<waitTime, hist, backoff, hvars, pvars>>

\* The handler is invoked: OPTIONS, GET and other methods are answered at
\* once, POST starts reading the request body.
Receive ==
  /\ hpc = "idle"
  /\ \E q \in HttpRequests :
       /\ request' = q
       /\ IF q.method = "POST"
            THEN hpc' = "reading" /\ httpResponse' = httpResponse
            ELSE /\ hpc' = "responded"
                 /\ httpResponse' =
                      IF q.method = "OPTIONS"
                        THEN PlainResponse(200, "preflight", <<>>)
                      ELSE IF q.method = "GET"
                        THEN PlainResponse(200, "health", <<>>)
                      ELSE PlainResponse(405, "text", <<>>)
  /\ UNCHANGED <<cvars, backoff, pvars>>

\* Mutant: callOpenAIWithRetry is called before the two checks.
ReadRequestCallsFirst ==
  /\ hpc = "reading"
  /\ request' = request
  /\ UNCHANGED pvars
  /\ IF ~request.json
       THEN /\ hpc' = "responded"
            /\ httpResponse' = HandlerCatch(MsgRequestNotJson)
            /\ UNCHANGED <<cvars, backoff>>
       ELSE /\ hpc' = "calling"
            /\ httpResponse' = httpResponse
            /\ Call

\* request.json() settles: the validation, then callOpenAIWithRetry.
ReadRequest ==
  /\ hpc = "reading"
  /\ request' = request
  /\ UNCHANGED pvars
  /\ IF ~request.json
       THEN /\ hpc' = "responded"
            /\ httpResponse' = HandlerCatch(MsgRequestNotJson)
            /\ UNCHANGED <<cvars, backoff>>
     ELSE IF request.prompt = ""
       THEN /\ hpc' = "responded"
            /\ httpResponse' = PlainResponse(400, "validation", MsgMissingPrompt)
            /\ UNCHANGED <<cvars, backoff>>
     ELSE IF request.apiKey = ""
       THEN /\ hpc' = "responded"
            /\ httpResponse' = PlainResponse(500, "validation", MsgMissingKey)
            /\ UNCHANGED <<cvars, backoff>>
     ELSE /\ hpc' = "calling"
          /\ httpResponse' = httpResponse
          /\ Call

\* callOpenAIWithRetry has settled: the handler returns its Response.
Respond ==
  /\ hpc = "calling"
  /\ pc = "done"
  /\ hpc' = "responded"
  /\ httpResponse' = HandlerResponse(result)
  /\ UNCHANGED <<request, cvars, backoff, pvars>>

Next ==
  \/ Receive
  \/ ReadRequest
  \/ FetchResolves
  \/ FetchRejects
  \/ BodySettles
  \/ DelayElapses
  \/ Respond

Spec == Init /\ [][Next]_vars

\* Every pending fetch settles, every body read settles and every timer
\* fires: the runtime resolves the promises the function awaits.
SpecFair ==
  /\ Spec
  /\ WF_vars(FetchResolves \/ FetchRejects)
  /\ WF_vars(BodySettles)
  /\ WF_vars(DelayElapses)

(***************************************************************************)
(* getBackoffDelay on its own: the arguments are drawn from bounded sets   *)
(* in which the cap is reached, and the function is applied once.          *)
(***************************************************************************)
BackoffAttempts == 0..maxRetries
BackoffBases == {500, baseDelay}
BackoffCaps == {1200, 4500, maxDelay}

InitBackoff ==
  /\ pc = "idle"
  /\ attempt = 0
  /\ response = NoResponse
  /\ waitTime = Num(0)
  /\ result = Pending
  /\ requests = 0
  /\ waited = 0
  /\ slept = 0
  /\ hist = <<>>
  /\ hpc = "idle"
  /\ request = NoRequest
  /\ httpResponse = NoHttpResponse
  /\ calls = [i \in Invocations |-> NoCall]
  /\ counters = [i \in Invocations |-> 0]
  /\ \E a \in BackoffAttempts, base \in BackoffBases, cap \in BackoffCaps,
        jitter \in Jitters :
       backoff = [a |-> a, base |-> base, cap |-> cap, jitter |-> jitter,
                  called |-> FALSE, value |-> 0]

CallBackoff ==
  /\ ~backoff.called
  /\ backoff' = [backoff EXCEPT
                   !.called = TRUE,
                   !.value = getBackoffDelay(backoff.a, backoff.base,
                                             backoff.cap, backoff.jitter)]
  /\ UNCHANGED <<cvars, hvars, pvars>>

NextBackoff == CallBackoff

SpecBackoff == InitBackoff /\ [][NextBackoff]_vars


(***************************************************************************)
(* Vocabulary of the properties.                                           *)
(***************************************************************************)
\* The outcome of the latest attempt the upstream has answered.
Last == hist[Len(hist)]
Answered == Len(hist) >= 1
Done == pc = "done"
Threw(message) == Done /\ result = Throw(message)

\* 2^a written out, for a in 0..maxRetries.
Factor == <<1, 2, 4, 8>>

\* w is an exponential backoff value of attempt a under RETRY_CONFIG.
IsBackoffOf(w, a) ==
  /\ ~w.nan
  /\ w.v >= Min(baseDelay * Factor[a + 1], maxDelay)
  /\ w.v <= Min(baseDelay * Factor[a + 1] + JitterRange, maxDelay)

\* The error of line 97 for this status, whatever its status text.
IsApiError(message, status) ==
  /\ Len(message) >= Len(MsgApiErrorPrefix) + Len(ToDigits(status)) + 3
  /\ SubSeq(message, 1, Len(MsgApiErrorPrefix) + Len(ToDigits(status)) + 3)
       = MsgApiErrorPrefix \o ToDigits(status) \o MsgApiErrorInfix

\* The fault is one the client recognises as network-class.
NetworkClass(message) ==
  includes(message, StrFetch) \/ includes(message, StrNetwork)

\* The header is a string that holds a number of seconds.
Parseable(h) == h.present /\ h.value # <<>> /\ ~parseInt(h.value).nan

(***************************************************************************)
(* C1: one invocation issues at most maxRetries + 1 upstream requests      *)
(* (4 with maxRetries = 3), whatever the upstream answers.                 *)
(***************************************************************************)
C1_AtMostMaxRetriesPlusOne ==
  /\ requests <= maxRetries + 1
  /\ Len(hist) <= requests
  /\ maxRetries = 3 => requests <= 4

\* All four requests were issued and the invocation has ended.
C1_Witness == Done /\ requests = maxRetries + 1 /\ Len(hist) = 4

(***************************************************************************)
(* C2: a 401 or 403, at any attempt index, is the last outcome: no request *)
(* and no wait follows it, and the invocation ends with the                *)
(* authentication (401) or authorization (403) error; a first response of  *)
(* 401 or 403 means exactly one request.                                   *)
(***************************************************************************)
C2_AuthNeverRetried ==
  \A i \in 1..Len(hist) :
     hist[i].status \in {401, 403} =>
       /\ i = Len(hist)
       /\ requests = i
       /\ waited = i - 1
       /\ pc \in {"body", "done"}
       /\ Done => result = Throw(IF hist[i].status = 401
                                   THEN MsgAuthFailed ELSE MsgPermission)
       /\ i = 1 => requests = 1

\* A 403 on the third attempt, after two retried failures, ended the call.
C2_Witness ==
  /\ Len(hist) = 3 /\ Last.status = 403 /\ attempt = 2
  /\ Threw(MsgPermission)

(***************************************************************************)
(* C3: a 429 is retried while attempts remain and is terminal only on the  *)
(* last attempt; when every attempt returns 429 exactly maxRetries + 1     *)
(* requests are made and the result is the rate-limit error.               *)
(***************************************************************************)
C3_RateLimitRetriedUntilExhausted ==
  (Answered /\ Last.status = 429) =>
    /\ Len(hist) <= maxRetries => ~Done
    /\ (Done \/ Len(hist) = maxRetries + 1) =>
         /\ Len(hist) = maxRetries + 1
         /\ requests = maxRetries + 1
         /\ pc \in {"body", "done"}
         /\ Done => result = Throw(MsgRateLimit)

\* Four 429 responses in a row ended in the rate-limit error.
C3_Witness ==
  /\ Len(hist) = 4 /\ \A i \in 1..4 : hist[i].status = 429
  /\ requests = 4 /\ Threw(MsgRateLimit)

(***************************************************************************)
(* C4: after a 429 with attempts remaining whose Retry-After header holds  *)
(* the integer n, delay() is called with n * 1000 instead of the backoff   *)
(* value, and the next request is issued only when that timer has run its  *)
(* n * 1000 ms.                                                            *)
(***************************************************************************)
C4_RetryAfterSeconds ==
  \A n \in 0..MaxRetryAfter :
     (/\ Answered /\ Last.status = 429 /\ Len(hist) <= maxRetries
      /\ Last.retryAfter = Hdr(ToDigits(n))) =>
        /\ pc \in {"body", "delay", "fetch"}
        /\ pc = "body" => requests = Len(hist)
        /\ pc = "delay" => requests = Len(hist) /\ waitTime = Num(n * 1000)
        /\ pc = "fetch" =>
             /\ requests = Len(hist) + 1
             /\ waited = Len(hist)
             /\ waitTime = Num(n * 1000)
             /\ slept = n * 1000

\* The request after a 429 with Retry-After: 2 is out, 2000 ms later.
C4_Witness ==
  /\ pc = "fetch" /\ Len(hist) = 1 /\ Last.status = 429
  /\ Last.retryAfter = Hdr(<<"2">>) /\ slept = 2000 /\ requests = 2

(***************************************************************************)
(* C5: after a 429 with attempts remaining whose Retry-After header is     *)
(* absent or is not parseable as a number of seconds, the wait is the      *)
(* exponential backoff value of the attempt.                               *)
(***************************************************************************)
C5_UnparseableFallsBackToBackoff ==
  (/\ Answered /\ Last.status = 429 /\ pc = "delay"
   /\ ~Parseable(Last.retryAfter)) =>
     IsBackoffOf(waitTime, attempt)

(***************************************************************************)
(* C6: getBackoffDelay(a, baseDelay, maxDelay) with jitter in [0, 1000)    *)
(* never exceeds maxDelay, is maxDelay when baseDelay * 2^a + jitter       *)
(* exceeds it, and otherwise is baseDelay * 2^a + jitter, which lies in    *)
(* [baseDelay * 2^a, baseDelay * 2^a + 1000]; the factor is 1, 2, 4 for    *)
(* attempts 0, 1, 2.                                                       *)
(***************************************************************************)
C6_BackoffRange ==
  backoff.called =>
    LET f == Factor[backoff.a + 1]
        raw == backoff.base * f + backoff.jitter
    IN /\ backoff.value <= backoff.cap
       /\ raw > backoff.cap => backoff.value = backoff.cap
       /\ raw <= backoff.cap =>
            /\ backoff.value = raw
            /\ backoff.value >= backoff.base * f
            /\ backoff.value <= backoff.base * f + JitterRange

\* An uncapped evaluation at attempt 2: four times the base delay plus jitter.
C6_Witness ==
  /\ backoff.called /\ backoff.a = 2 /\ backoff.base = baseDelay
  /\ backoff.cap = maxDelay /\ backoff.jitter > 0
  /\ backoff.value = 4 * baseDelay + backoff.jitter

(***************************************************************************)
(* C7: when the first k attempts are answered with a status >= 500 and     *)
(* attempt k + 1 with a success status and a JSON body, the invocation     *)
(* returns the document of attempt k + 1 after exactly k + 1 requests and  *)
(* exactly k waits.                                                        *)
(***************************************************************************)
C7_SuccessAfterServerErrors ==
  (/\ Done /\ Answered
   /\ ok(Last) /\ Last.body.json
   /\ \A i \in 1..(Len(hist) - 1) : hist[i].status >= 500) =>
     /\ result = Return(JsonValue(Last.body))
     /\ result.data.id # ErrorBody.id
     /\ requests = Len(hist)
     /\ waited = Len(hist) - 1

\* 500, 503, 200: the third response's document, after two waits.
C7_Witness ==
  /\ Done /\ Len(hist) = 3
  /\ hist[1].status = 500 /\ hist[2].status = 503 /\ hist[3].status = 200
  /\ result = Return([id |-> 2]) /\ waited = 2 /\ requests = 3

(***************************************************************************)
(* C8: a status >= 500 is retried after an exponential-backoff wait while  *)
(* attempts remain; on the last attempt it ends the invocation with the    *)
(* error of the status code of that attempt, and no wait or request        *)
(* follows.                                                                *)
(***************************************************************************)
C8_ServerErrorRetriedThenTerminal ==
  (Answered /\ Last.status >= 500) =>
    /\ Len(hist) <= maxRetries =>
         /\ ~Done
         /\ pc = "delay" => requests = Len(hist) /\ IsBackoffOf(waitTime, attempt)
         /\ pc = "fetch" =>
              /\ requests = Len(hist) + 1
              /\ waited = Len(hist)
              /\ IsBackoffOf(Num(slept), attempt - 1)
    /\ Len(hist) = maxRetries + 1 =>
         /\ pc \in {"body", "done"}
         /\ requests = maxRetries + 1
         /\ waited = maxRetries
         /\ Done => /\ result.type = "throw"
                    /\ IsApiError(result.message, Last.status)

\* 500, 500, 500, 503: the error of the fourth attempt's status.
C8_Witness ==
  /\ Done /\ Len(hist) = 4
  /\ \A i \in 1..3 : hist[i].status = 500
  /\ Last.status = 503
  /\ result.type = "throw" /\ IsApiError(result.message, 503)

(***************************************************************************)
(* C9: a non-success status other than 429, 401, 403 and >= 500 ends the   *)
(* invocation at once, at every attempt index and for every status text,   *)
(* with the error carrying the status code and the status text: no wait    *)
(* and no further request follows.                                         *)
(***************************************************************************)
C9_OtherStatusNeverRetried ==
  (/\ Answered /\ ~ok(Last) /\ Last.status # 0
   /\ Last.status \notin {429, 401, 403} /\ Last.status < 500) =>
     /\ pc \in {"body", "done"}
     /\ requests = Len(hist)
     /\ waited = Len(hist) - 1
     /\ Done => /\ response.status = Last.status
                /\ result = Throw(ApiErrorMessage(Last.status,
                                                  response.statusText))

(***************************************************************************)
(* C10: a rejected fetch() whose fault is network-class is followed by an  *)
(* exponential-backoff wait and a retry while attempts remain, and ends    *)
(* the invocation with that error on the last attempt; a fault that is not *)
(* network-class ends the invocation at once at every attempt index.       *)
(***************************************************************************)
C10_TransportFaults ==
  (Answered /\ Last.status = 0) =>
    /\ (NetworkClass(Last.fault) /\ Len(hist) <= maxRetries) =>
         \/ /\ pc = "delay" /\ requests = Len(hist)
            /\ IsBackoffOf(waitTime, attempt)
         \/ /\ pc = "fetch" /\ requests = Len(hist) + 1
            /\ waited = Len(hist)
            /\ IsBackoffOf(Num(slept), attempt - 1)
    /\ (NetworkClass(Last.fault) /\ Len(hist) = maxRetries + 1) =>
         /\ Threw(Last.fault)
         /\ requests = maxRetries + 1
    /\ ~NetworkClass(Last.fault) =>
         /\ Threw(Last.fault)
         /\ requests = Len(hist)
         /\ waited = Len(hist) - 1

\* A network-class fault on the last attempt, after a retried one.
C10_Witness ==
  /\ Len(hist) = 4 /\ Last.status = 0 /\ NetworkClass(Last.fault)
  /\ hist[1].status = 0 /\ Threw(FaultFetchFailed) /\ waited = 3


(***************************************************************************)
(* Two invocations of callOpenAIWithRetry running interleaved (two         *)
(* requests served by the same isolate).  Each invocation has the locals   *)
(* of its own activation; the upstream answers each of them from a small   *)
(* set of outcomes.                                                        *)
(***************************************************************************)
PairResponses ==
  {r \in Responses :
     \/ r.status = 200 /\ r.body.id = 1
     \/ r.status = 401
     \/ r.status = 503}
PairFaults == {FaultFetchFailed}

\* What the upstream did to one request of an invocation.
Resolved(r) == [fault |-> <<>>, r |-> r]
Rejected(message) == [fault |-> message, r |-> NoResponse]

\* Mutant: attempt is one module-level variable, not a binding per loop.
CounterShared(i) == 1

\* `let attempt = 0`: the binding that the loop of invocation i declares.
CounterOf(i) == i

\* The head of invocation i's loop with attempt = a; c holds its locals.
PairLoopHead(i, c, a) ==
  /\ counters' = [counters EXCEPT ![CounterOf(i)] = a]
  /\ calls' = [calls EXCEPT ![i] =
       IF LoopContinues(a)
         THEN [c EXCEPT !.pc = "fetch", !.response = NoResponse,
                        !.requests = @ + 1,
                        !.sent = Append(@, c.requestBody)]
         ELSE [c EXCEPT !.pc = "done", !.response = NoResponse,
                        !.result = Return(Undefined)]]

\* What follows an attempt's outcome o in an invocation with locals c.
PairSettle(c, o) ==
  IF o.type = "delay"
    THEN [c EXCEPT !.pc = "delay", !.waitTime = o.ms]
    ELSE [c EXCEPT !.pc = "done",
                   !.result = [type |-> o.type, data |-> o.data,
                               message |-> o.message]]

\* callOpenAIWithRetry(prompt, env, options): the body is built, then the
\* loop is entered.
PairCallWith(i, prompt, options) ==
  /\ calls[i].pc = "idle"
  /\ PairLoopHead(i, [calls[i] EXCEPT
                        !.options = options,
                        !.requestBody = RequestBody(prompt, options)], 0)
  /\ UNCHANGED <<cvars, hvars, backoff>>

\* A call that leaves the options out.
PairCall(i) == PairCallWith(i, "hello", NoOptions)

PairFetchResolves(i) ==
  /\ calls[i].pc = "fetch"
  /\ \E r \in PairResponses :
       calls' = [calls EXCEPT ![i] =
                   [@ EXCEPT !.pc = "body", !.response = r,
                             !.hist = Append(@, Resolved(r))]]
  /\ UNCHANGED <<counters, cvars, hvars, backoff>>

PairFetchRejects(i) ==
  /\ calls[i].pc = "fetch"
  /\ \E message \in PairFaults, jitter \in Jitters :
       calls' = [calls EXCEPT ![i] =
                   PairSettle([@ EXCEPT !.hist = Append(@, Rejected(message))],
                              Catch(counters[CounterOf(i)], message, jitter))]
  /\ UNCHANGED <<counters, cvars, hvars, backoff>>

PairBodySettles(i) ==
  /\ calls[i].pc = "body"
  /\ \E jitter \in Jitters :
       LET c == calls[i]
           a == counters[CounterOf(i)]
           o == IF ok(c.response)
                  THEN IF c.response.body.json
                         THEN Return(JsonValue(c.response.body))
                         ELSE Catch(a, JsonSyntaxError, jitter)
                  ELSE TryBody(a, c.response, jitter)
       IN calls' = [calls EXCEPT ![i] = PairSettle(c, o)]
  /\ UNCHANGED <<counters, cvars, hvars, backoff>>

PairDelayElapses(i) ==
  /\ calls[i].pc = "delay"
  /\ PairLoopHead(i, [calls[i] EXCEPT !.waited = @ + 1],
                  counters[CounterOf(i)] + 1)
  /\ UNCHANGED <<cvars, hvars, backoff>>

NextPair ==
  \E i \in Invocations :
    \/ PairCall(i)
    \/ PairFetchResolves(i)
    \/ PairFetchRejects(i)
    \/ PairBodySettles(i)
    \/ PairDelayElapses(i)

SpecPair == Init /\ [][NextPair]_vars

(***************************************************************************)
(* One invocation called with options drawn from OptionSets, against the   *)
(* same upstream as above.                                                 *)
(***************************************************************************)
CallWithOptions ==
  \E options \in OptionSets : PairCallWith(1, "hello", options)

NextOptions ==
  \/ CallWithOptions
  \/ PairFetchResolves(1)
  \/ PairFetchRejects(1)
  \/ PairBodySettles(1)
  \/ PairDelayElapses(1)

SpecOptions == Init /\ [][NextOptions]_vars

(***************************************************************************)
(* Vocabulary of the properties about the caller's view.                   *)
(***************************************************************************)
\* The handler has answered a request that went through callOpenAIWithRetry.
Answering == hpc = "responded" /\ pc = "done"
Failed == Done /\ result.type = "throw"

\* The error is one the client built for an upstream status, or a fault it
\* recognises as network-class.
Classified(message) ==
  \/ message \in {MsgRateLimit, MsgAuthFailed, MsgPermission}
  \/ \E st \in Statuses : IsApiError(message, st)
  \/ NetworkClass(message)

\* The error is the exception fetch() or response.json() raised, unchanged.
RawException(message) ==
  \/ Last.status = 0 /\ message = Last.fault
  \/ ok(Last) /\ ~Last.body.json /\ message = JsonSyntaxError

(***************************************************************************)
(* C11: a failing invocation surfaces a classified error (rate limit,      *)
(* authentication, authorization, upstream server error, upstream error,   *)
(* network error), never the raw exception of fetch() or of body parsing,  *)
(* and the failure reaches the handler's response.                         *)
(***************************************************************************)
C11_ClassifiedNeverRaw ==
  /\ Failed =>
       /\ Classified(result.message)
       /\ ~RawException(result.message)
  /\ (Answering /\ result.type = "throw") =>
       /\ httpResponse.type = "AI_API_ERROR"
       /\ httpResponse.error = result.message

(***************************************************************************)
(* C12: a success status whose document has no choice with message         *)
(* content (empty or missing choices array) still gives the caller a       *)
(* success result, with empty text, and not an error response.             *)
(***************************************************************************)
C12_NoChoiceIsEmptySuccess ==
  (/\ Answering /\ result.type = "return"
   /\ Document(result.data.id).choices = <<>>) =>
     /\ httpResponse.status = 200
     /\ httpResponse.type = "completion"
     /\ httpResponse.text = ""

(***************************************************************************)
(* C13: for a success document with at least one choice the caller gets    *)
(* text = the first choice's message content, usage = the document's usage *)
(* and model = the document's model, of the attempt that succeeded.        *)
(***************************************************************************)
C13_CompletionFields ==
  (/\ Answering /\ Answered /\ ok(Last) /\ Last.body.json
   /\ Len(Document(Last.body.id).choices) >= 1) =>
     /\ httpResponse.status = 200
     /\ httpResponse.type = "completion"
     /\ httpResponse.text = Document(Last.body.id).choices[1]
     /\ httpResponse.usage = Document(Last.body.id).usage
     /\ httpResponse.model = Document(Last.body.id).model
     /\ Last.body.id = 1 =>
          /\ httpResponse.text = "hi" /\ httpResponse.model = "m"
          /\ httpResponse.usage = [prompt_tokens |-> 1, completion_tokens |-> 1,
                                   total_tokens |-> 2]
     /\ Last.body.id = 2 =>
          /\ httpResponse.text = "first" /\ httpResponse.model = "gpt-4"
          /\ httpResponse.usage.total_tokens = 5

\* The two-choice document, served on the second attempt, was answered.
C13_Witness ==
  /\ Answering /\ Len(hist) = 2 /\ hist[1].status = 503
  /\ Last.status = 200 /\ Last.body.id = 2
  /\ httpResponse.text = "first" /\ httpResponse.status = 200

(***************************************************************************)
(* C14: the handler's response status follows the kind of the failure:     *)
(* rate limit exceeded -> 429, authentication -> 401, authorization ->     *)
(* 403, every other kind -> 500 whatever status text or fault message the  *)
(* error carries.                                                          *)
(***************************************************************************)
C14_StatusFollowsKind ==
  (Answering /\ result.type = "throw" /\ Answered) =>
     httpResponse.status =
       (IF Last.status = 429 THEN 429
        ELSE IF Last.status = 401 THEN 401
        ELSE IF Last.status = 403 THEN 403
        ELSE 500)

(***************************************************************************)
(* C16: requests and waits of one invocation are strictly sequential: at   *)
(* most one request is outstanding, none while a delay is pending, and     *)
(* attempt i + 1 is issued only when the outcome of attempt i has been     *)
(* decided and its wait has elapsed.                                       *)
(***************************************************************************)
C16_StrictlySequential ==
  /\ requests - Len(hist) \in {0, 1}
  /\ pc = "fetch" <=> requests - Len(hist) = 1
  /\ pc = "delay" => requests = Len(hist) /\ waited = requests - 1
  /\ pc = "fetch" => waited = requests - 1 /\ attempt = requests - 1
  /\ pc = "body" => response.status = Last.status

\* The third request is outstanding, two waits after the first.
C16_Witness ==
  pc = "fetch" /\ requests = 3 /\ Len(hist) = 2 /\ waited = 2

(***************************************************************************)
(* C19: the number of elapsed waits is the number of requests minus one    *)
(* (zero before the first request): one wait before each retry, none       *)
(* after the attempt that ends the invocation; the attempt index grows by  *)
(* one per retry, and the exponential backoff of the retry after attempt a *)
(* has exponent a.                                                         *)
(***************************************************************************)
C19_OneWaitPerRetry ==
  /\ waited = (IF requests = 0 THEN 0 ELSE requests - 1)
  /\ attempt = waited
  /\ Done => waited = Len(hist) - 1
  /\ (/\ pc = "delay"
      /\ ~(/\ Last.status = 429 /\ Last.retryAfter.present
           /\ Last.retryAfter.value # <<>>)) =>
       /\ attempt = Len(hist) - 1
       /\ IsBackoffOf(waitTime, Len(hist) - 1)

\* The wait after the third failed attempt is pending: 4000 ms plus jitter.
C19_Witness ==
  /\ pc = "delay" /\ requests = 3 /\ waited = 2 /\ Last.status = 0
  /\ waitTime.v >= 4000 /\ waitTime.v < 5000

(***************************************************************************)
(* C20: the loop never runs out without an outcome: whatever the last      *)
(* attempt is answered with, callOpenAIWithRetry returns a document or     *)
(* throws, and never ends with undefined.                                  *)
(***************************************************************************)
C20_NeverUndefined ==
  /\ attempt <= maxRetries
  /\ Done =>
       /\ result.type \in {"return", "throw"}
       /\ result.type = "return" =>
            /\ result.data # Undefined
            /\ ok(Last) /\ result.data = JsonValue(Last.body)

\* The last attempt (index maxRetries) succeeded.
C20_Witness ==
  /\ Done /\ attempt = maxRetries /\ Len(hist) = maxRetries + 1
  /\ result.type = "return" /\ Last.status = 200

(***************************************************************************)
(* C15: if every upstream request and every timed wait eventually          *)
(* completes, an invocation of callOpenAIWithRetry that has started        *)
(* eventually reaches a terminal success or a terminal failure, whatever   *)
(* the upstream answers.                                                   *)
(***************************************************************************)
C15_EventuallyTerminal ==
  (pc \in {"fetch", "body", "delay"}) ~>
     (Done /\ result.type \in {"return", "throw"})

\* An invocation ended after all its retries and waits.
C15_Witness ==
  /\ Done /\ waited = maxRetries /\ requests = maxRetries + 1
  /\ result.type = "throw"

(***************************************************************************)
(* Vocabulary of the properties about two interleaved invocations.         *)
(***************************************************************************)
\* What attempt number a (zero-based) does with the upstream outcome e when
\* the invocation runs alone, for a jitter of 0.
AloneOutcome(a, e) ==
  IF e.fault # <<>> THEN Catch(a, e.fault, 0)
  ELSE IF ok(e.r)
    THEN IF e.r.body.json THEN Return(JsonValue(e.r.body))
         ELSE Catch(a, JsonSyntaxError, 0)
  ELSE TryBody(a, e.r, 0)

AloneResult(a, e) ==
  LET o == AloneOutcome(a, e)
  IN [type |-> o.type, data |-> o.data, message |-> o.message]

IsPrefix(s, t) == Len(s) <= Len(t) /\ SubSeq(t, 1, Len(s)) = s

(***************************************************************************)
(* C17: two interleaved invocations share no mutable state.  Under every   *)
(* interleaving each invocation's attempt counter counts its own retries,  *)
(* and its number of attempts and its outcome are those that its own       *)
(* upstream outcomes, taken alone and in order, decide: every outcome but  *)
(* the last was retried at its own index, and the last one decided the     *)
(* result.                                                                 *)
(***************************************************************************)
C17_InvocationsIndependent ==
  \A i \in Invocations :
    LET c == calls[i]
        n == Len(c.hist)
    IN /\ counters[i] = c.waited
       /\ c.requests <= maxRetries + 1
       /\ c.waited = (IF c.requests = 0 THEN 0 ELSE c.requests - 1)
       /\ c.requests = (IF c.pc = "fetch" THEN n + 1 ELSE n)
       /\ \A k \in 1..(n - 1) : AloneOutcome(k - 1, c.hist[k]).type = "delay"
       /\ c.pc = "delay" => AloneOutcome(n - 1, c.hist[n]).type = "delay"
       /\ c.pc = "done" =>
            /\ n >= 1
            /\ c.result = AloneResult(n - 1, c.hist[n])

\* Both invocations are in flight at different attempts: the first has its
\* third request outstanding while the second waits after its first.
C17_Witness ==
  /\ calls[1].pc = "fetch" /\ calls[1].requests = 3 /\ counters[1] = 2
  /\ calls[2].pc = "delay" /\ calls[2].requests = 1 /\ counters[2] = 0

(***************************************************************************)
(* C18: two invocations served the same sequence of upstream outcomes make *)
(* the same number of attempts and end in the same outcome, whatever       *)
(* jitter each one draws: once one has ended on a sequence, the other,     *)
(* served that same sequence, issues no further request and ends with the  *)
(* same result.  Jitter shows only in the wait durations.                  *)
(***************************************************************************)
C18_SameOutcomesSameResult ==
  \A i, j \in Invocations :
    (calls[i].pc = "done" /\ IsPrefix(calls[i].hist, calls[j].hist)) =>
       /\ calls[j].hist = calls[i].hist
       /\ calls[j].pc \in {"body", "done"}
       /\ calls[j].pc = "done" =>
            /\ calls[j].result = calls[i].result
            /\ calls[j].requests = calls[i].requests
            /\ calls[j].waited = calls[i].waited

\* Both ended on the same three outcomes after waits of different lengths.
C18_Witness ==
  /\ calls[1].pc = "done" /\ calls[2].pc = "done"
  /\ calls[1].hist = calls[2].hist /\ Len(calls[1].hist) = 3
  /\ calls[1].hist[2].fault = FaultFetchFailed
  /\ calls[1].waitTime # calls[2].waitTime
  /\ calls[1].result = calls[2].result

(***************************************************************************)
(* C21: every suspension between two attempts lasts at most maxDelay, and  *)
(* so the waiting of one invocation at most maxRetries * maxDelay, for     *)
(* every upstream response, a 429 with a Retry-After header included.      *)
(***************************************************************************)
C21_SuspensionAtMostMaxDelay ==
  /\ pc = "delay" => TimeoutMs(waitTime) <= maxDelay
  /\ slept <= maxDelay
  /\ slept <= maxRetries * maxDelay

(***************************************************************************)
(* C22: every request of an invocation carries the caller's model,         *)
(* temperature and max token count where the caller supplied them          *)
(* (temperature 0 included) and the defaults (provider model, 0.7, 500)    *)
(* only for the options left out; the body is the same on every attempt.   *)
(***************************************************************************)
C22_BodyCarriesOptions ==
  LET c == calls[1]
  IN /\ Len(c.sent) = c.requests
     /\ \A k \in 1..Len(c.sent) :
          /\ c.sent[k] = c.sent[1]
          /\ c.sent[k].content = "hello"
          /\ c.sent[k].model =
               (IF c.options.model.given THEN c.options.model.v
                ELSE DefaultModel)
          /\ c.sent[k].temperature =
               (IF c.options.temperature.given THEN c.options.temperature.v
                ELSE DefaultTemperature)
          /\ c.sent[k].max_tokens =
               (IF c.options.max_tokens.given THEN c.options.max_tokens.v
                ELSE DefaultMaxTokens)

(***************************************************************************)
(* C23: in the POST handler validation precedes upstream traffic.  A       *)
(* parsed request without a prompt is answered 400, one with a prompt but  *)
(* no API key is answered 500, and in both cases no upstream request is    *)
(* issued and the retry loop is not entered; an upstream request is issued *)
(* only once both checks have passed.                                      *)
(***************************************************************************)
C23_ValidationBeforeUpstream ==
  /\ hpc \in {"idle", "reading"} => requests = 0 /\ pc = "idle"
  /\ (requests > 0 \/ pc # "idle") =>
       /\ request.method = "POST" /\ request.json
       /\ request.prompt # "" /\ request.apiKey # ""
  /\ (/\ hpc = "responded" /\ request.method = "POST" /\ request.json
      /\ request.prompt = "") =>
       /\ httpResponse.status = 400
       /\ httpResponse.error = MsgMissingPrompt
       /\ requests = 0 /\ pc = "idle" /\ hist = <<>> /\ waited = 0
  /\ (/\ hpc = "responded" /\ request.method = "POST" /\ request.json
      /\ request.prompt # "" /\ request.apiKey = "") =>
       /\ httpResponse.status = 500
       /\ httpResponse.error = MsgMissingKey
       /\ requests = 0 /\ pc = "idle" /\ hist = <<>> /\ waited = 0
  /\ hpc = "calling" => requests >= 1

\* A POST with a prompt and no API key was answered 500 with no request.
C23_Witness ==
  /\ hpc = "responded" /\ request.method = "POST" /\ request.json
  /\ request.prompt = "hello" /\ request.apiKey = ""
  /\ httpResponse.status = 500 /\ requests = 0

=============================================================================
